---- MODULE Spec2Model ----
(***************************************************************************)
(* A model of src/mkv/mkv_edit.py: the interactive session that probes a   *)
(* Matroska file, lets the user choose the audio and subtitle tracks to    *)
(* keep, edit names and default flags, and synthesizes the mkvmerge        *)
(* command line.                                                           *)
(*                                                                         *)
(* Text read from the terminal is a sequence of one-character strings, so  *)
(* that strip(), lower(), split(',') and int() are computed as Python      *)
(* computes them.  Text that is only built (command-line arguments, track  *)
(* names, paths) is a TLA+ string.  A track's properties are a sparse      *)
(* mapping: a record whose DOMAIN holds exactly the keys that are present.  *)
(* The working list holds references (indices into the probed track list), *)
(* as the Python list holds references to the probed dicts.                *)
(***************************************************************************)
EXTENDS Integers, Sequences, FiniteSets, TLC

----------------------------------------------------------------------------
(* Bounds of the model *)

\* the largest number of tracks the probed file carries
MaxTracks == 3

\* the largest number of comma-separated tokens in a line typed at a
\* selection prompt
MaxTokens == 2

\* the largest number of renamed output paths that already exist
MaxRename == 1

\* the largest number of tracks of a file whose properties are edited
MaxEditTracks == 2

\* the largest number of EditingTrack rounds of one Property Editor run
MaxEdits == 2

\* the largest number of EditingTrack rounds within a whole session
SessionEdits == 1

\* the largest number of tracks of the files a whole session is run on
\* (the scenario file apart)
MaxSessionTracks == 2

\* the largest number of tracks, and of entries of the final list, the
\* Command Synthesizer is applied to
MaxSynthTracks == 2

----------------------------------------------------------------------------
(* Python string operations on lines read by input() *)

Whitespace == {" ", "\t"}

Digits == <<"0", "1", "2", "3", "4", "5", "6", "7", "8", "9">>

IsDigit(c) == \E d \in 1..10 : Digits[d] = c

DigitVal(c) == (CHOOSE d \in 1..10 : Digits[d] = c) - 1

\* str.lower() on one character (the letters the model's inputs use)
LowerChar(c) ==
  CASE c = "A" -> "a" [] c = "L" -> "l" [] c = "N" -> "n" [] c = "O" -> "o"
    [] c = "E" -> "e" [] c = "Y" -> "y" [] c = "F" -> "f" [] c = "M" -> "m"
    [] c = "K" -> "k" [] c = "V" -> "v" [] c = "R" -> "r" [] c = "C" -> "c"
    [] OTHER -> c

lower(s) == [i \in 1..Len(s) |-> LowerChar(s[i])]

RECURSIVE lstrip(_)
lstrip(s) ==
  IF s # <<>> /\ Head(s) \in Whitespace THEN lstrip(Tail(s)) ELSE s

RECURSIVE rstrip(_)
rstrip(s) ==
  IF s # <<>> /\ s[Len(s)] \in Whitespace
  THEN rstrip(SubSeq(s, 1, Len(s) - 1))
  ELSE s

strip(s) == rstrip(lstrip(s))

\* s.split(','): the pieces between the commas, empty pieces included
RECURSIVE SplitFrom(_, _)
SplitFrom(s, cur) ==
  IF s = <<>> THEN <<cur>>
  ELSE IF Head(s) = "," THEN <<cur>> \o SplitFrom(Tail(s), <<>>)
  ELSE SplitFrom(Tail(s), Append(cur, Head(s)))

split(s) == SplitFrom(s, <<>>)

RECURSIVE DigitsValue(_, _)
DigitsValue(s, acc) ==
  IF s = <<>> THEN acc ELSE DigitsValue(Tail(s), 10 * acc + DigitVal(Head(s)))

AllDigits(s) == s # <<>> /\ \A i \in 1..Len(s) : IsDigit(s[i])

\* int(text): surrounding whitespace and one sign are allowed; anything else
\* raises ValueError
int(text) ==
  LET t == strip(text)
      signed == t # <<>> /\ Head(t) \in {"+", "-"}
      body == IF signed THEN Tail(t) ELSE t
  IN IF AllDigits(body)
     THEN [ok |-> TRUE,
           val |-> IF signed /\ Head(t) = "-"
                   THEN 0 - DigitsValue(body, 0)
                   ELSE DigitsValue(body, 0)]
     ELSE [ok |-> FALSE, val |-> 0]

\* the text of a line as one string
RECURSIVE Text(_)
Text(s) == IF s = <<>> THEN "" ELSE Head(s) \o Text(Tail(s))

\* str(n) of a natural number
RECURSIVE str(_)
str(n) == IF n < 10 THEN Digits[n + 1] ELSE str(n \div 10) \o Digits[(n % 10) + 1]

\* ','.join(items)
RECURSIVE join(_)
join(items) ==
  IF items = <<>> THEN ""
  ELSE IF Len(items) = 1 THEN items[1]
  ELSE items[1] \o "," \o join(Tail(items))

----------------------------------------------------------------------------
(* Tracks *)

TrackTypes == {"video", "audio", "subtitles"}

\* dict.get(key, default) on a sparse properties mapping
Get(props, key, default) == IF key \in DOMAIN props THEN props[key] ELSE default

\* props[key] = value
SetKey(props, key, value) ==
  [k \in DOMAIN props \cup {key} |-> IF k = key THEN value ELSE props[k]]

\* del props[key]
DelKey(props, key) == [k \in DOMAIN props \ {key} |-> props[k]]

\* one track as mkvmerge -J reports it; name and flag are "absent" when the
\* key is missing from the properties
Track(id, type, name, flag) ==
  LET p0 == [language |-> "und"]
      p1 == IF name = "absent" THEN p0 ELSE SetKey(p0, "track_name", name)
      p2 == IF flag = "absent" THEN p1 ELSE SetKey(p1, "default_track", flag = "yes")
  IN [id |-> id, type |-> type, codec |-> "AAC", properties |-> p2]

\* the track lists of n tracks with ids 0..n-1, every combination of types,
\* the names and default flags drawn per track from the given sets
TrackLists(n, names, flags) ==
  { [i \in 1..n |-> Track(i - 1, ty[i], nm[i], fl[i])] :
      ty \in [1..n -> TrackTypes], nm \in [1..n -> names], fl \in [1..n -> flags] }

\* the same, with one name choice and one flag choice for the whole file
UniformTrackLists(n, names, flags) ==
  { [i \in 1..n |-> Track(i - 1, ty[i], nm, fl)] :
      ty \in [1..n -> TrackTypes], nm \in names, fl \in flags }

\* list.sort(key=lambda t: t['id']) on a list of references into ts: a stable
\* insertion sort
RECURSIVE InsertById(_, _, _)
InsertById(sorted, r, ts) ==
  IF sorted = <<>> THEN <<r>>
  ELSE IF ts[r].id < ts[Head(sorted)].id THEN <<r>> \o sorted
  ELSE <<Head(sorted)>> \o InsertById(Tail(sorted), r, ts)

RECURSIVE SortById(_, _)
SortById(refs, ts) ==
  IF refs = <<>> THEN <<>>
  ELSE InsertById(SortById(SubSeq(refs, 1, Len(refs) - 1), ts), refs[Len(refs)], ts)

\* all_tracks_original.sort(key=lambda t: t['id']) on the probed records
SortTracks(ts) ==
  LET order == SortById([i \in 1..Len(ts) |-> i], ts)
  IN [i \in 1..Len(ts) |-> ts[order[i]]]

\* [t for t in all_tracks if t['type'] == type], as references
RECURSIVE RefsFrom(_, _, _)
RefsFrom(ts, type, i) ==
  IF i > Len(ts) THEN <<>>
  ELSE IF ts[i].type = type THEN <<i>> \o RefsFrom(ts, type, i + 1)
  ELSE RefsFrom(ts, type, i + 1)

RefsOfType(ts, type) == RefsFrom(ts, type, 1)

----------------------------------------------------------------------------
(* Selection Engine: select_tracks_to_keep *)

video_tracks(ts) == RefsOfType(ts, "video")
audio_tracks(ts) == RefsOfType(ts, "audio")
subtitle_tracks(ts) == RefsOfType(ts, "subtitles")

\* mutant: the display numbers follow the id order of the whole list
track_map_ById(ts) == [i \in 1..Len(ts) |-> i]

\* track_map_to_original_data: display number -> track; the running counter
\* current_display_num numbers the video tracks first, then the audio tracks,
\* then the subtitle tracks
track_map_to_original_data(ts) ==
  video_tracks(ts) \o audio_tracks(ts) \o subtitle_tracks(ts)

audio_selection_start_num(ts) == 1 + Len(video_tracks(ts))
audio_selection_end_num(ts) == audio_selection_start_num(ts) + Len(audio_tracks(ts))
subtitle_selection_start_num(ts) == audio_selection_end_num(ts)
subtitle_selection_end_num(ts) ==
  subtitle_selection_start_num(ts) + Len(subtitle_tracks(ts))

\* mutant: the video tracks are not put into the kept list
InitialKept_Empty(ts) == <<>>

\* kept_tracks = list(video_tracks)
InitialKept(ts) == video_tracks(ts)

\* mutant: the range stops one short
range_Short(a, b) == [i \in 1..(IF b - 1 > a THEN b - 1 - a ELSE 0) |-> a + i - 1]

\* list(range(a, b))
range(a, b) == [i \in 1..(IF b > a THEN b - a ELSE 0) |-> a + i - 1]

\* mutant: the numbers that are in range are accepted, the others dropped
ParseSelection_Partial(line, start_num, end_num) ==
  LET raw == strip(line)
      parsed == [i \in 1..Len(split(raw)) |-> int(strip(split(raw)[i]))]
      good == SelectSeq(parsed, LAMBDA n : n.ok /\ start_num <= n.val /\ n.val < end_num)
  IN IF lower(raw) = <<"a", "l", "l">>
     THEN [valid |-> TRUE,
           indices |-> [i \in 1..(end_num - start_num) |-> start_num + i - 1]]
     ELSE IF lower(raw) = <<"n", "o", "n", "e">> \/ raw = <<>>
     THEN [valid |-> TRUE, indices |-> <<>>]
     ELSE [valid |-> TRUE, indices |-> [i \in 1..Len(good) |-> good[i].val]]

\* One pass of a group's prompt loop on the line read: the display numbers
\* selected and whether the input is valid.
ParseSelection(line, start_num, end_num) ==
  LET raw == strip(line)
      parsed == [i \in 1..Len(split(raw)) |-> int(strip(split(raw)[i]))]
      values == [i \in 1..Len(parsed) |-> parsed[i].val]
  IN IF lower(raw) = <<"a", "l", "l">>
     THEN [valid |-> TRUE, indices |-> range(start_num, end_num)]
     ELSE IF lower(raw) = <<"n", "o", "n", "e">> \/ raw = <<>>
     THEN [valid |-> TRUE, indices |-> <<>>]
     ELSE IF \E i \in 1..Len(parsed) : ~parsed[i].ok
     THEN [valid |-> FALSE, indices |-> <<>>]
     ELSE IF \E i \in 1..Len(values) : ~(start_num <= values[i] /\ values[i] < end_num)
     THEN [valid |-> FALSE, indices |-> values]
     ELSE [valid |-> TRUE, indices |-> values]

\* for i_val in selected indices: kept_tracks.append(map[i_val]) when mapped
RECURSIVE AppendSelected(_, _, _)
AppendSelected(kept_tracks, indices, map) ==
  IF indices = <<>> THEN kept_tracks
  ELSE AppendSelected(
         IF Head(indices) \in DOMAIN map
         THEN Append(kept_tracks, map[Head(indices)])
         ELSE kept_tracks,
         Tail(indices), map)

\* kept_tracks.sort(key=lambda t: t['id']); return kept_tracks
SelectionResult(kept_tracks, ts) == SortById(kept_tracks, ts)

----------------------------------------------------------------------------
(* Property Editor: modify_track_properties *)

\* mutant: the deletion sentinel is a name like any other
EditName_NoSentinel(ts, ref, line) ==
  IF strip(line) # <<>>
  THEN [ts EXCEPT ![ref].properties = SetKey(@, "track_name", Text(strip(line)))]
  ELSE ts

\* the name step of EditingTrack on the record ts[ref]; the line is stripped
EditName(ts, ref, line) ==
  LET new_name_input == strip(line)
      props == ts[ref].properties
  IN IF new_name_input = <<"-">>
     THEN IF "track_name" \in DOMAIN props
          THEN [ts EXCEPT ![ref].properties = DelKey(props, "track_name")]
          ELSE ts
     ELSE IF new_name_input # <<>>
     THEN [ts EXCEPT ![ref].properties = SetKey(props, "track_name", Text(new_name_input))]
     ELSE ts

\* display_tracks(tracks_to_modify, ...) at the top of the editor's loop
Listing == <<"edit_listing">>

\* what the editor prints for the line read at its row prompt
RowMessages(l, tracks_to_modify) ==
  LET n == int(strip(l))
  IN IF lower(strip(l)) = <<"f">> THEN <<"finished">>
     ELSE IF ~n.ok THEN <<"invalid_input">> \o Listing
     ELSE IF ~(0 <= n.val - 1 /\ n.val - 1 < Len(tracks_to_modify))
     THEN <<"invalid_row">> \o Listing
     ELSE <<"editing">>

\* what the editor prints for the line read at its name prompt
NameMessages(l) == IF strip(l) = <<"-">> THEN <<"name_deleted">> ELSE <<>>

\* what the editor prints for the line read at its default-flag prompt
DefaultMessages(l) == IF lower(strip(l)) = <<"y">> THEN <<"set_default">> ELSE <<>>

\* the end of an EditingTrack round: its last message, and the table of the
\* next pass of the loop
RoundEnd == <<"edited">> \o Listing

\* mutant: the siblings keep their default flags
ClearSiblings_Skip(ts, tracks_to_modify, idx, i) == ts

\* mutant: a same-type track of the list gets the key when it lacks it
ClearSiblings_AddKey(ts, tracks_to_modify, idx, i) ==
  [r \in 1..Len(ts) |->
     IF /\ r # tracks_to_modify[idx]
        /\ \E k \in 1..Len(tracks_to_modify) : tracks_to_modify[k] = r
        /\ ts[r].type = ts[tracks_to_modify[idx]].type
     THEN [ts[r] EXCEPT !.properties = SetKey(@, "default_track", FALSE)]
     ELSE ts[r]]

\* mutant: every same-type record of the original list is cleared
ClearSiblings_AllOriginal(ts, tracks_to_modify, idx, i) ==
  [r \in 1..Len(ts) |->
     IF /\ r # tracks_to_modify[idx]
        /\ ts[r].type = ts[tracks_to_modify[idx]].type
        /\ "default_track" \in DOMAIN ts[r].properties
     THEN [ts[r] EXCEPT !.properties = SetKey(@, "default_track", FALSE)]
     ELSE ts[r]]

\* for i, t in enumerate(tracks_to_modify): a same-type track at another list
\* position loses its default flag when it carries the key
RECURSIVE ClearSiblings(_, _, _, _)
ClearSiblings(ts, tracks_to_modify, idx, i) ==
  IF i > Len(tracks_to_modify) THEN ts
  ELSE LET t == tracks_to_modify[i]
           selected == tracks_to_modify[idx]
       IN ClearSiblings(
            IF ts[t].type = ts[selected].type /\ i # idx
               /\ "default_track" \in DOMAIN ts[t].properties
            THEN [ts EXCEPT ![t].properties = SetKey(@, "default_track", FALSE)]
            ELSE ts,
            tracks_to_modify, idx, i + 1)

\* the default-flag step of EditingTrack on list position idx (1-based)
EditDefault(ts, tracks_to_modify, idx, line) ==
  LET default_str == lower(strip(line))
      ref == tracks_to_modify[idx]
  IN IF default_str = <<"y">>
     THEN ClearSiblings(
            [ts EXCEPT ![ref].properties = SetKey(@, "default_track", TRUE)],
            tracks_to_modify, idx, 1)
     ELSE IF default_str = <<"n">>
     THEN [ts EXCEPT ![ref].properties = SetKey(@, "default_track", FALSE)]
     ELSE ts

----------------------------------------------------------------------------
(* Command Synthesizer: build_mkvmerge_command *)

\* the records a list of references denotes
Deref(refs, ts) == [i \in 1..Len(refs) |-> ts[refs[i]]]

\* [str(t['id']) for t in final_tracks if t['type'] == type]
RECURSIVE TrackIds(_, _)
TrackIds(final_tracks, type) ==
  IF final_tracks = <<>> THEN <<>>
  ELSE (IF Head(final_tracks).type = type THEN <<str(Head(final_tracks).id)>> ELSE <<>>)
       \o TrackIds(Tail(final_tracks), type)

\* mutant: the exclusion flag is emitted whether or not the source had the type
TrackFilter_AlwaysExclude(final_tracks, original_tracks_info, type, include, exclude) ==
  IF TrackIds(final_tracks, type) # <<>>
  THEN <<include, join(TrackIds(final_tracks, type))>>
  ELSE <<exclude>>

\* mutant: no exclusion flag is ever emitted
TrackFilter_NoExclude(final_tracks, original_tracks_info, type, include, exclude) ==
  IF TrackIds(final_tracks, type) # <<>>
  THEN <<include, join(TrackIds(final_tracks, type))>>
  ELSE <<>>

\* the inclusion flag of a type, or its exclusion flag, or nothing
TrackFilter(final_tracks, original_tracks_info, type, include, exclude) ==
  IF TrackIds(final_tracks, type) # <<>>
  THEN <<include, join(TrackIds(final_tracks, type))>>
  ELSE IF \E i \in 1..Len(original_tracks_info) : original_tracks_info[i].type = type
  THEN <<exclude>>
  ELSE <<>>

\* --track-name id:name when a name is set, id: when the key is absent
NameArgs(track) ==
  IF "track_name" \in DOMAIN track.properties
  THEN <<"--track-name", str(track.id) \o ":" \o track.properties.track_name>>
  ELSE <<"--track-name", str(track.id) \o ":">>

\* mutant: a missing key is treated as an explicit false
DefaultArgs_Always(track) ==
  <<"--default-track",
    str(track.id) \o ":" \o (IF Get(track.properties, "default_track", FALSE)
                             THEN "1" ELSE "0")>>

\* --default-track id:1 or id:0 only when the key is present
DefaultArgs(track) ==
  IF "default_track" \in DOMAIN track.properties
  THEN <<"--default-track",
         str(track.id) \o ":" \o (IF Get(track.properties, "default_track", FALSE)
                                  THEN "1" ELSE "0")>>
  ELSE <<>>

RECURSIVE PropertyArgs(_)
PropertyArgs(final_tracks) ==
  IF final_tracks = <<>> THEN <<>>
  ELSE NameArgs(Head(final_tracks)) \o DefaultArgs(Head(final_tracks))
       \o PropertyArgs(Tail(final_tracks))

build_mkvmerge_command(input_filepath, output_filepath, final_tracks, original_tracks_info) ==
  <<"mkvmerge", "-q", "-o", output_filepath>>
  \o TrackFilter(final_tracks, original_tracks_info, "video", "--video-tracks", "--no-video")
  \o TrackFilter(final_tracks, original_tracks_info, "audio", "--audio-tracks", "--no-audio")
  \o TrackFilter(final_tracks, original_tracks_info, "subtitles",
                 "--subtitle-tracks", "--no-subtitles")
  \o PropertyArgs(final_tracks)
  \o <<input_filepath>>

----------------------------------------------------------------------------
(* Paths: os.path.splitext and the output name *)

\* the position of the last dot of a path, 0 when it has none (or only a
\* leading one)
RECURSIVE LastDot(_, _)
LastDot(p, i) ==
  IF i <= 1 THEN 0 ELSE IF p[i] = "." THEN i ELSE LastDot(p, i - 1)

\* os.path.splitext(p) on a path without directory separators
splitext(p) ==
  LET d == LastDot(p, Len(p))
  IN IF d = 0 THEN [base |-> p, ext |-> <<>>]
     ELSE [base |-> SubSeq(p, 1, d - 1), ext |-> SubSeq(p, d, Len(p))]

\* p.lower().endswith('.mkv')
EndsWithMkv(p) ==
  Len(p) >= 4 /\ SubSeq(lower(p), Len(p) - 3, Len(p)) = <<".", "m", "k", "v">>

\* f"{base}_modified"
output_filepath_base(p) == Text(splitext(p).base) \o "_modified"

\* f"{output_filepath_base}{ext}"
DefaultOutput(p) == output_filepath_base(p) \o Text(splitext(p).ext)

\* mutant: the suffix does not follow count
RenamedOutput_Fixed(p, n) ==
  output_filepath_base(p) \o "_1" \o Text(splitext(p).ext)

\* f"{output_filepath_base}_{count}{ext}"
RenamedOutput(p, n) ==
  output_filepath_base(p) \o "_" \o str(n) \o Text(splitext(p).ext)

----------------------------------------------------------------------------
(* The session: main *)

VARIABLES
  pc,               \* where main is blocked: the prompt or call it waits on
  file,             \* the track list mkvmerge -J reports for the input file
  mkv_filepath,     \* the accepted input path
  tracks,           \* all_tracks_original: the probed records, sorted by id
  kept,             \* kept_tracks / tracks_to_modify: references into tracks
  line,             \* the line the last input() returned
  track_idx,        \* the list position being edited (1-based), 0 when none
  edits,            \* the number of EditingTrack rounds started
  editor,           \* the Property Editor: "idle", "skipped", "open", "finished"
  printed,          \* what the last step of the Property Editor printed
  output_filepath,  \* the candidate output path
  output_exists,    \* the answer of the last os.path.exists(output_filepath)
  count,            \* the next numeric suffix of the output name
  cmd,              \* mkvmerge_cmd, empty until it is built
  status,           \* "running" or the way the session ended
  probeCalls,       \* the number of mkvmerge -J invocations
  remuxCalls        \* the number of remux invocations

vars == <<pc, file, mkv_filepath, tracks, kept, line, track_idx, edits, editor,
          printed, output_filepath, output_exists, count, cmd, status, probeCalls,
          remuxCalls>>

\* the files on disk: a.mkv and b.mp4 exist, anything else does not
isfile(p) == p \in { <<"a", ".", "m", "k", "v">>, <<"b", ".", "m", "p", "4">> }

PathLines ==
  { <<"a", ".", "m", "k", "v">>, <<" ", "a", ".", "m", "k", "v">>,
    <<"b", ".", "m", "p", "4">>, <<"n", ".", "m", "k", "v">>, <<>> }

\* answers to the yes/no questions
AnswerLines == { <<>>, <<"y">>, <<"Y">>, <<" ", "y">>, <<"n">> }

\* the tokens of the lines typed at a selection prompt: the numbers up to
\* one past the largest display number, and a word that is no number
SelectionTokens == { <<Digits[d + 1]>> : d \in 0..(MaxTracks + 1) } \cup { <<"x">> }

RECURSIVE JoinTokens(_)
JoinTokens(tokens) ==
  IF Len(tokens) = 1 THEN tokens[1]
  ELSE tokens[1] \o <<",">> \o JoinTokens(Tail(tokens))

KeywordLines ==
  { <<"a", "l", "l">>, <<"A", "L", "L">>, <<" ", "A", "l", "l", " ">>,
    <<"n", "o", "n", "e">>, <<"N", "o", "n", "e">>, <<>>, <<" ">>,
    <<" ", "2">>, <<"2", ",">>, <<"2", ",", " ", "3">>, <<"-", "2">>, <<"1", "2">> }

\* every line of at most MaxTokens tokens, and the keywords
SelectionLines ==
  KeywordLines
  \cup { JoinTokens(tl) : tl \in UNION { [1..n -> SelectionTokens] : n \in 1..MaxTokens } }

\* the lines a whole session is driven with
SessionSelectionLines ==
  { <<>>, <<"a", "l", "l">>, <<"n", "o", "n", "e">>, <<"x">>, <<"1">>, <<"2">>,
    <<"3">>, <<"2", ",", "2">>, <<"3", ",", "2">>, <<"2", ",", "9">> }

\* lines typed at the editor's row prompt
RowLines ==
  { <<"f">>, <<" ", "F">>, <<"x">>, <<"0">>, <<"1">>, <<" ", "2">>, <<"3">> }

\* lines typed at the editor's name prompt
NameLines == { <<>>, <<"-">>, <<"b">>, <<" ", "b">> }

\* lines typed at the editor's default-flag prompt
DefaultLines == { <<>>, <<"y">>, <<" ", "Y">>, <<"n">> }

\* lines typed at the output-collision prompt
CollisionLines == { <<"o">>, <<"r">>, <<"R">>, <<"c">>, <<"x">> }

\* the file of the end-to-end scenario: one video track (id 0) and two
\* audio tracks (ids 1 and 2)
ScenarioFile ==
  <<Track(0, "video", "absent", "absent"), Track(1, "audio", "absent", "absent"),
    Track(2, "audio", "absent", "absent")>>

\* the files a whole session is run on: the scenario file and every
\* combination of types, all tracks unnamed, the default flags all absent or
\* all set
SessionFiles ==
  { ScenarioFile }
  \cup UNION { UniformTrackLists(n, {"absent"}, {"absent", "yes"}) : n \in 0..MaxSessionTracks }

\* the files the Selection Engine is run on: every combination of types
SelectionFiles ==
  UNION { UniformTrackLists(n, {"absent"}, {"absent"}) : n \in 1..MaxTracks }

\* the files the Property Editor is run on: every combination of types and
\* of default flags, the tracks unnamed
EditorFiles ==
  UNION { { [i \in 1..n |-> Track(i - 1, ty[i], nm, fl[i])] :
              ty \in [1..n -> TrackTypes], nm \in {"absent"},
              fl \in [1..n -> {"absent", "yes", "no"}] } : n \in 1..MaxEditTracks }

InitOn(files, paths, start) ==
  /\ file \in files
  /\ pc = start
  /\ mkv_filepath \in paths
  /\ line = mkv_filepath
  /\ tracks = <<>>
  /\ kept = <<>>
  /\ track_idx = 0
  /\ edits = 0
  /\ editor = "idle"
  /\ printed = <<>>
  /\ output_filepath = ""
  /\ output_exists = FALSE
  /\ count = 1
  /\ cmd = <<>>
  /\ status = "running"
  /\ probeCalls = 0
  /\ remuxCalls = 0

\* main before its first prompt
Init == InitOn(SessionFiles, { <<>> }, "input_path")

\* main with the path a.mkv accepted, before the probe
InitSelection == InitOn(SelectionFiles, { <<"a", ".", "m", "k", "v">> }, "probe")

InitEditor == InitOn(EditorFiles, { <<"a", ".", "m", "k", "v">> }, "probe")

\* the input-path loop: a path that is no regular file is asked again, a
\* path without the .mkv suffix needs a confirmation
EnterPath ==
  /\ pc = "input_path"
  /\ \E l \in PathLines :
       /\ line' = l
       /\ mkv_filepath' = strip(l)
       /\ pc' = IF ~isfile(strip(l)) THEN "input_path"
                ELSE IF ~EndsWithMkv(strip(l)) THEN "confirm_nonmkv"
                ELSE "probe"
  /\ UNCHANGED <<file, tracks, kept, track_idx, edits, editor, output_filepath, count,
                 cmd, status, probeCalls, remuxCalls,
                 output_exists, printed>>

\* input(...).lower() != 'y' asks for the path again
ConfirmNonMkv ==
  /\ pc = "confirm_nonmkv"
  /\ \E l \in AnswerLines :
       /\ line' = l
       /\ pc' = IF lower(l) # <<"y">> THEN "input_path" ELSE "probe"
  /\ UNCHANGED <<file, mkv_filepath, tracks, kept, track_idx, edits, editor,
                 output_filepath, count, cmd, status, probeCalls, remuxCalls,
                 output_exists, printed>>

\* mutant: the subtitle group is not prompted
AfterAudio_SkipSubtitles(ts, kept_tracks) ==
  IF SelectionResult(kept_tracks, ts) = <<>>
  THEN [pc |-> "exit", kept |-> <<>>, status |-> "none_selected"]
  ELSE [pc |-> "edit_ask",
        kept |-> SortById(SelectionResult(kept_tracks, ts), ts),
        status |-> "running"]

\* where select_tracks_to_keep and main go once the audio group is done
AfterAudio(ts, kept_tracks) ==
  IF subtitle_tracks(ts) # <<>>
  THEN [pc |-> "subs_prompt", kept |-> kept_tracks, status |-> "running"]
  ELSE IF SelectionResult(kept_tracks, ts) = <<>>
  THEN [pc |-> "exit", kept |-> <<>>, status |-> "none_selected"]
  ELSE [pc |-> "edit_ask",
        kept |-> SortById(SelectionResult(kept_tracks, ts), ts),
        status |-> "running"]

\* the start of select_tracks_to_keep, up to its first prompt
BeginSelection(ts) ==
  IF audio_tracks(ts) # <<>>
  THEN [pc |-> "audio_prompt", kept |-> InitialKept(ts), status |-> "running"]
  ELSE AfterAudio(ts, InitialKept(ts))

ProbeOutcomes == {"ok", "nonzero_exit", "bad_json", "no_tracks_key"}

\* get_mkv_info and what main does with its result, up to the first prompt
ProbeResult(outcome, reported) ==
  IF outcome # "ok"
  THEN [pc |-> "exit", kept |-> <<>>, status |-> "probe_failed", tracks |-> <<>>]
  ELSE IF reported = <<>>
  THEN [pc |-> "exit", kept |-> <<>>, status |-> "no_tracks", tracks |-> <<>>]
  ELSE LET begun == BeginSelection(SortTracks(reported))
       IN [pc |-> begun.pc, kept |-> begun.kept, status |-> begun.status,
           tracks |-> SortTracks(reported)]

Probe ==
  /\ pc = "probe"
  /\ probeCalls' = probeCalls + 1
  /\ \E outcome \in ProbeOutcomes :
       LET result == ProbeResult(outcome, file)
       IN /\ pc' = result.pc
          /\ kept' = result.kept
          /\ status' = result.status
          /\ tracks' = result.tracks
  /\ UNCHANGED <<file, mkv_filepath, line, track_idx, edits, editor, output_filepath,
                 count, cmd, remuxCalls,
                 output_exists, printed>>

\* one pass of the audio prompt loop
AudioStep(ts, kept_tracks, l) ==
  LET sel == ParseSelection(l, audio_selection_start_num(ts), audio_selection_end_num(ts))
  IN IF sel.valid
     THEN AfterAudio(ts, AppendSelected(kept_tracks, sel.indices,
                                        video_tracks(ts) \o audio_tracks(ts)))
     ELSE [pc |-> "audio_prompt", kept |-> kept_tracks, status |-> "running"]

AudioPrompt(lines) ==
  /\ pc = "audio_prompt"
  /\ \E l \in lines :
       LET result == AudioStep(tracks, kept, l)
       IN /\ line' = l
          /\ pc' = result.pc
          /\ kept' = result.kept
          /\ status' = result.status
  /\ UNCHANGED <<file, mkv_filepath, tracks, track_idx, edits, editor, output_filepath,
                 count, cmd, probeCalls, remuxCalls,
                 output_exists, printed>>

\* mutant: main does not test the returned list for emptiness
AfterSubtitles_NoCheck(ts, kept_tracks) ==
  [pc |-> "edit_ask",
   kept |-> SortById(SelectionResult(kept_tracks, ts), ts),
   status |-> "running"]

\* where select_tracks_to_keep and main go once the subtitle group is done
AfterSubtitles(ts, kept_tracks) ==
  IF SelectionResult(kept_tracks, ts) = <<>>
  THEN [pc |-> "exit", kept |-> <<>>, status |-> "none_selected"]
  ELSE [pc |-> "edit_ask",
        kept |-> SortById(SelectionResult(kept_tracks, ts), ts),
        status |-> "running"]

\* one pass of the subtitle prompt loop
SubtitleStep(ts, kept_tracks, l) ==
  LET sel == ParseSelection(l, subtitle_selection_start_num(ts),
                            subtitle_selection_end_num(ts))
  IN IF sel.valid
     THEN AfterSubtitles(ts, AppendSelected(kept_tracks, sel.indices,
                                            track_map_to_original_data(ts)))
     ELSE [pc |-> "subs_prompt", kept |-> kept_tracks, status |-> "running"]

SubtitlePrompt(lines) ==
  /\ pc = "subs_prompt"
  /\ \E l \in lines :
       LET result == SubtitleStep(tracks, kept, l)
       IN /\ line' = l
          /\ pc' = result.pc
          /\ kept' = result.kept
          /\ status' = result.status
  /\ UNCHANGED <<file, mkv_filepath, tracks, track_idx, edits, editor, output_filepath,
                 count, cmd, probeCalls, remuxCalls,
                 output_exists, printed>>

\* main after modify_track_properties returned: the final sort, the default
\* output name and the first os.path.exists test (exists is its answer)
AfterEditor(ts, tracks_to_modify, path, exists) ==
  LET final == SortById(tracks_to_modify, ts)
  IN [kept |-> final,
      output_filepath |-> DefaultOutput(path),
      pc |-> IF exists THEN "collision" ELSE "confirm_run",
      cmd |-> IF exists THEN <<>>
              ELSE build_mkvmerge_command(Text(path), DefaultOutput(path),
                                          Deref(final, ts), ts)]

\* mutant: the editor's loop is entered whatever the answer
EditAsk_AlwaysOpen ==
  /\ pc = "edit_ask"
  /\ \E l \in AnswerLines : line' = l
  /\ editor' = "open"
  /\ printed' = Listing
  /\ pc' = "edit_cmd"
  /\ UNCHANGED <<file, mkv_filepath, tracks, kept, track_idx, edits, count, status,
                 probeCalls, remuxCalls, cmd, output_filepath, output_exists>>

\* the entry of modify_track_properties: an empty list returns at once, a
\* non-empty one after the opening question unless the answer is 'y'
EditAsk ==
  /\ pc = "edit_ask"
  /\ \E l \in (IF kept = <<>> THEN {line} ELSE AnswerLines) :
       /\ line' = l
       /\ IF kept = <<>> \/ lower(strip(l)) # <<"y">>
          THEN \E exists \in BOOLEAN :
                 LET after == AfterEditor(tracks, kept, mkv_filepath, exists)
                 IN /\ editor' = "skipped"
                    /\ printed' = (IF kept = <<>> THEN <<"nothing_to_edit">> ELSE <<>>)
                    /\ pc' = after.pc
                    /\ kept' = after.kept
                    /\ cmd' = after.cmd
                    /\ output_filepath' = after.output_filepath
                    /\ output_exists' = exists
          ELSE /\ editor' = "open"
               /\ printed' = Listing
               /\ pc' = "edit_cmd"
               /\ UNCHANGED <<kept, cmd, output_filepath, output_exists>>
  /\ UNCHANGED <<file, mkv_filepath, tracks, track_idx, edits, count, status,
                 probeCalls, remuxCalls>>

\* the row the line names: 0 when the line is no number (ValueError) or the
\* number is no row of the list
SelectedRow(l, tracks_to_modify) ==
  LET n == int(strip(l))
  IN IF n.ok /\ 0 <= n.val - 1 /\ n.val - 1 < Len(tracks_to_modify) THEN n.val ELSE 0

\* AwaitingCommand: 'f' ends the loop, a row number starts an edit, anything
\* else starts the loop again.  At most max_edits edits are started.
EditCmd(max_edits) ==
  /\ pc = "edit_cmd"
  /\ \E l \in RowLines :
       LET row == SelectedRow(l, kept)
       IN /\ line' = l
          /\ printed' = RowMessages(l, kept)
          /\ IF lower(strip(l)) = <<"f">>
             THEN \E exists \in BOOLEAN :
                    LET after == AfterEditor(tracks, kept, mkv_filepath, exists)
                    IN /\ editor' = "finished"
                       /\ track_idx' = 0
                       /\ edits' = edits
                       /\ pc' = after.pc
                       /\ kept' = after.kept
                       /\ cmd' = after.cmd
                       /\ output_filepath' = after.output_filepath
                       /\ output_exists' = exists
             ELSE /\ row # 0 => edits < max_edits
                  /\ edits' = IF row # 0 THEN edits + 1 ELSE edits
                  /\ track_idx' = IF row = 0 THEN track_idx ELSE row
                  /\ pc' = IF row = 0 THEN "edit_cmd" ELSE "edit_name"
                  /\ UNCHANGED <<editor, kept, cmd, output_filepath, output_exists>>
  /\ UNCHANGED <<file, mkv_filepath, tracks, count, status, probeCalls, remuxCalls>>

\* EditingTrack, the name question
EditNameStep ==
  /\ pc = "edit_name"
  /\ \E l \in NameLines :
       /\ line' = l
       /\ tracks' = EditName(tracks, kept[track_idx], l)
       /\ printed' = NameMessages(l)
                       \o (IF tracks[kept[track_idx]].type \in {"audio", "subtitles"}
                           THEN <<>> ELSE RoundEnd)
  /\ pc' = IF tracks[kept[track_idx]].type \in {"audio", "subtitles"}
           THEN "edit_default" ELSE "edit_cmd"
  /\ UNCHANGED <<file, mkv_filepath, kept, track_idx, edits, editor, output_filepath,
                 count, cmd, status, probeCalls, remuxCalls,
                 output_exists>>

\* EditingTrack, the default-flag question (audio and subtitle tracks)
EditDefaultStep ==
  /\ pc = "edit_default"
  /\ \E l \in DefaultLines :
       /\ line' = l
       /\ tracks' = EditDefault(tracks, kept, track_idx, l)
       /\ printed' = DefaultMessages(l) \o RoundEnd
  /\ pc' = "edit_cmd"
  /\ UNCHANGED <<file, mkv_filepath, kept, track_idx, edits, editor, output_filepath,
                 count, cmd, status, probeCalls, remuxCalls,
                 output_exists>>

\* the output-collision loop: overwrite, rename, cancel; exists answers the
\* os.path.exists test of the renamed path.  At most MaxRename renamed
\* paths exist.
Collision ==
  /\ pc = "collision"
  /\ \E l \in CollisionLines, exists \in BOOLEAN :
       /\ line' = l
       /\ IF lower(l) = <<"o">>
          THEN /\ pc' = "confirm_run"
               /\ cmd' = build_mkvmerge_command(Text(mkv_filepath), output_filepath,
                                                Deref(kept, tracks), tracks)
               /\ UNCHANGED <<output_filepath, output_exists, count, status>>
          ELSE IF lower(l) = <<"r">>
          THEN /\ exists => count <= MaxRename
               /\ output_filepath' = RenamedOutput(mkv_filepath, count)
               /\ output_exists' = exists
               /\ count' = count + 1
               /\ pc' = IF exists THEN "collision" ELSE "confirm_run"
               /\ cmd' = IF exists THEN <<>>
                         ELSE build_mkvmerge_command(
                                Text(mkv_filepath), RenamedOutput(mkv_filepath, count),
                                Deref(kept, tracks), tracks)
               /\ status' = status
          ELSE IF lower(l) = <<"c">>
          THEN /\ pc' = "exit"
               /\ status' = "cancelled"
               /\ UNCHANGED <<output_filepath, output_exists, count, cmd>>
          ELSE /\ pc' = "collision"
               /\ UNCHANGED <<output_filepath, output_exists, count, cmd, status>>
  /\ UNCHANGED <<file, mkv_filepath, tracks, kept, track_idx, edits, editor,
                 probeCalls, remuxCalls, printed>>

RemuxOutcomes == {"remux_ok", "remux_failed", "remux_error"}

\* mutant: the remux is invoked whatever the answer
ConfirmRun_Always ==
  /\ pc = "confirm_run"
  /\ \E l \in AnswerLines, outcome \in RemuxOutcomes :
       /\ line' = l
       /\ status' = outcome
  /\ remuxCalls' = remuxCalls + 1
  /\ pc' = "exit"
  /\ UNCHANGED <<file, mkv_filepath, tracks, kept, track_idx, edits, editor,
                 output_filepath, count, cmd, probeCalls,
                 output_exists, printed>>

\* the final confirmation and the remux invocation
ConfirmRun ==
  /\ pc = "confirm_run"
  /\ \E l \in AnswerLines, outcome \in RemuxOutcomes :
       /\ line' = l
       /\ IF lower(strip(l)) = <<"y">>
          THEN /\ remuxCalls' = remuxCalls + 1
               /\ status' = outcome
          ELSE /\ remuxCalls' = remuxCalls
               /\ status' = "declined"
  /\ pc' = "exit"
  /\ UNCHANGED <<file, mkv_filepath, tracks, kept, track_idx, edits, editor,
                 output_filepath, count, cmd, probeCalls,
                 output_exists, printed>>

\* the Command Synthesizer applied to the lists held in tracks and kept
Synthesize ==
  /\ pc = "synthesize"
  /\ cmd' = build_mkvmerge_command(Text(mkv_filepath), output_filepath,
                                   Deref(kept, tracks), tracks)
  /\ pc' = "synthesized"
  /\ UNCHANGED <<file, mkv_filepath, tracks, kept, line, track_idx, edits, editor,
                 output_filepath, count, status, probeCalls, remuxCalls,
                 output_exists, printed>>

\* every original track list of at most MaxSynthTracks tracks, any names
\* and default flags, with every final list of at most MaxSynthTracks of
\* its tracks, in any order
InitSynthesizer ==
  /\ file \in UNION { TrackLists(n, {"absent", "a"}, {"absent", "yes", "no"}) :
                       n \in 1..MaxSynthTracks }
  /\ tracks = file
  /\ kept \in UNION { [1..n -> 1..Len(file)] : n \in 0..MaxSynthTracks }
  /\ pc = "synthesize"
  /\ mkv_filepath = <<"a", ".", "m", "k", "v">>
  /\ line = <<>>
  /\ track_idx = 0
  /\ edits = 0
  /\ editor = "idle"
  /\ printed = <<>>
  /\ output_filepath = DefaultOutput(mkv_filepath)
  /\ output_exists = FALSE
  /\ count = 1
  /\ cmd = <<>>
  /\ status = "running"
  /\ probeCalls = 0
  /\ remuxCalls = 0

NextSynthesizer == Synthesize

\* the Command Synthesizer as a function of its arguments
SpecSynthesizer == InitSynthesizer /\ [][NextSynthesizer]_vars

Next ==
  \/ EnterPath
  \/ ConfirmNonMkv
  \/ Probe
  \/ AudioPrompt(SessionSelectionLines)
  \/ SubtitlePrompt(SessionSelectionLines)
  \/ EditAsk
  \/ EditCmd(SessionEdits)
  \/ EditNameStep
  \/ EditDefaultStep
  \/ Collision
  \/ ConfirmRun

\* the whole session
Spec == Init /\ [][Next]_vars

NextSelection ==
  \/ Probe
  \/ AudioPrompt(SelectionLines)
  \/ SubtitlePrompt(SelectionLines)

\* the Selection Engine on every track list, driven by every line
SpecSelection == InitSelection /\ [][NextSelection]_vars

\* modify_track_properties called on any list of records of the probed
\* list, the empty one included, in any order
InitEditorCall ==
  /\ file \in EditorFiles
  /\ tracks = SortTracks(file)
  /\ kept \in UNION { [1..n -> 1..Len(file)] : n \in 0..MaxEditTracks }
  /\ pc = "edit_ask"
  /\ mkv_filepath = <<"a", ".", "m", "k", "v">>
  /\ line = mkv_filepath
  /\ track_idx = 0
  /\ edits = 0
  /\ editor = "idle"
  /\ printed = <<>>
  /\ output_filepath = ""
  /\ output_exists = FALSE
  /\ count = 1
  /\ cmd = <<>>
  /\ status = "running"
  /\ probeCalls = 1
  /\ remuxCalls = 0

NextEditorCall ==
  \/ EditAsk
  \/ EditCmd(MaxEdits)
  \/ EditNameStep
  \/ EditDefaultStep

\* the Property Editor as a procedure of its argument
SpecEditorCall == InitEditorCall /\ [][NextEditorCall]_vars

NextEditor ==
  \/ Probe
  \/ AudioPrompt(SessionSelectionLines)
  \/ SubtitlePrompt(SessionSelectionLines)
  \/ EditAsk
  \/ EditCmd(MaxEdits)
  \/ EditNameStep
  \/ EditDefaultStep

\* selection and the Property Editor, up to the editor's return
SpecEditor == InitEditor /\ [][NextEditor]_vars

----------------------------------------------------------------------------
(* Vocabulary of the properties *)

\* the ids of the tracks a list of references denotes
Ids(refs) == [i \in 1..Len(refs) |-> tracks[refs[i]].id]

\* the entries of a list of references that denote tracks of a type
OfType(refs, type) == SelectSeq(refs, LAMBDA r : tracks[r].type = type)

\* the tracks of the working set that have the type and default_track ==
\* true in the track list ts
DefaultTracks(ts, type) ==
  { kept[i] : i \in { j \in 1..Len(kept) :
      /\ ts[kept[j]].type = type
      /\ "default_track" \in DOMAIN ts[kept[j]].properties
      /\ ts[kept[j]].properties.default_track = TRUE } }

\* the positions of an argument in the command line
ArgPositions(flag) == { i \in 1..Len(cmd) : cmd[i] = flag }

\* the command line holds the flag followed by the value
HasArg(flag, value) == \E i \in ArgPositions(flag) : i < Len(cmd) /\ cmd[i + 1] = value

InclusionFlag == [video |-> "--video-tracks", audio |-> "--audio-tracks",
                  subtitles |-> "--subtitle-tracks"]

ExclusionFlag == [video |-> "--no-video", audio |-> "--no-audio",
                  subtitles |-> "--no-subtitles"]

\* the comma-joined ids of the tracks of a type in the final list, in its order
IdList(type) ==
  join([i \in 1..Len(OfType(kept, type)) |-> str(tracks[OfType(kept, type)[i]].id)])

\* the state right after the default-flag question was answered 'y'
AnsweredDefaultYes ==
  /\ pc = "edit_cmd"
  /\ editor = "open"
  /\ track_idx \in 1..Len(kept)
  /\ tracks[kept[track_idx]].type \in {"audio", "subtitles"}
  /\ lower(strip(line)) = <<"y">>

----------------------------------------------------------------------------
(* C1 *)

\* C1: right after an EditingTrack step in which the default-flag question on
\* an audio or subtitle track was answered 'y', exactly one track of that
\* type in the working set has default_track == true, and it is the track
\* that was just edited.
C1_DefaultExclusive ==
  AnsweredDefaultYes
    => DefaultTracks(tracks, tracks[kept[track_idx]].type) = {kept[track_idx]}

----------------------------------------------------------------------------
(* C2 *)

\* C2 as stated: once the editor was left with 'f', at most one track of the
\* working set per type in {audio, subtitle} has default_track == true,
\* whatever flags the source file carried.
C2_AtMostOneDefault ==
  editor = "finished"
    => \A type \in {"audio", "subtitles"} : Cardinality(DefaultTracks(tracks, type)) <= 1

\* C2 as amended: once the editor was left with 'f', at most one track of the
\* working set per type in {audio, subtitle} has default_track == true,
\* provided at most one track of that type in the working set had it when
\* the editor was entered (the flags the probe reported).
C2_AtMostOneDefaultGivenSource ==
  editor = "finished"
    => \A type \in {"audio", "subtitles"} :
         Cardinality(DefaultTracks(SortTracks(file), type)) <= 1
           => Cardinality(DefaultTracks(tracks, type)) <= 1

\* the editor was left with 'f' after a 'y' moved the default flag from the
\* track that carried it in the source to another track of the same type
C2_Witness ==
  /\ editor = "finished"
  /\ \E type \in {"audio", "subtitles"} :
       /\ Cardinality(DefaultTracks(SortTracks(file), type)) = 1
       /\ Cardinality(DefaultTracks(tracks, type)) = 1
       /\ DefaultTracks(tracks, type) # DefaultTracks(SortTracks(file), type)

----------------------------------------------------------------------------
(* C3 *)

\* the state right after the audio prompt accepted a line, in a file without
\* subtitle tracks
AudioAnswered(answer) == pc = "edit_ask" /\ editor = "idle" /\ strip(line) = answer

\* the session of the scenario went through: tracks 0 and 1 kept, editing
\* skipped, the default output name, the run confirmed
ScenarioRun ==
  /\ file = ScenarioFile
  /\ Ids(kept) = <<0, 1>>
  /\ editor = "skipped"
  /\ output_filepath = "a_modified.mkv"
  /\ remuxCalls = 1

\* C3 as stated: on the scenario file the line "1" at the audio prompt keeps
\* the tracks 0 and 1, and the command of that session has --video-tracks 0,
\* --audio-tracks 1, --no-subtitles and ends with the input path.
C3_ScenarioAsStated ==
  file = ScenarioFile =>
    /\ (pc \in {"audio_prompt", "edit_ask"} /\ editor = "idle" /\ strip(line) = <<"1">>)
         => (AudioAnswered(<<"1">>) /\ Ids(kept) = <<0, 1>>)
    /\ ScenarioRun =>
         /\ HasArg("--video-tracks", "0")
         /\ HasArg("--audio-tracks", "1")
         /\ ArgPositions("--no-subtitles") # {}
         /\ cmd[Len(cmd)] = "a.mkv"

\* C3 as amended: on the scenario file the line "2" (the display number of
\* the audio track with id 1) at the audio prompt keeps the tracks 0 and 1,
\* and the command of that session has --video-tracks 0, --audio-tracks 1, no
\* subtitle flag of either kind (the file never had subtitles), and ends
\* with the input path.
C3_Scenario ==
  file = ScenarioFile =>
    /\ (pc \in {"audio_prompt", "edit_ask"} /\ editor = "idle" /\ strip(line) = <<"2">>)
         => (AudioAnswered(<<"2">>) /\ Ids(kept) = <<0, 1>>)
    /\ ScenarioRun =>
         /\ HasArg("--video-tracks", "0")
         /\ HasArg("--audio-tracks", "1")
         /\ ArgPositions("--no-subtitles") = {}
         /\ ArgPositions("--subtitle-tracks") = {}
         /\ cmd[Len(cmd)] = "a.mkv"

\* the scenario's session ended with the remux run on the synthesized command
C3_Witness == ScenarioRun /\ pc = "exit" /\ status = "remux_ok" /\ cmd # <<>>

----------------------------------------------------------------------------
(* C4 *)

\* C4: for each type the command has the inclusion flag, once and followed
\* by the ids of the final tracks of the type in final order, exactly when
\* the final list has a track of the type; it has the exclusion flag exactly
\* when the final list has none and the original list has one; never both,
\* and neither when both lists lack the type.
C4_TrackFilter ==
  pc = "synthesized" =>
    \A type \in TrackTypes :
      LET inFinal == OfType(kept, type) # <<>>
          inOriginal == \E i \in 1..Len(tracks) : tracks[i].type = type
          included == ArgPositions(InclusionFlag[type])
          excluded == ArgPositions(ExclusionFlag[type])
      IN /\ included # {} <=> inFinal
         /\ inFinal => Cardinality(included) = 1 /\ HasArg(InclusionFlag[type], IdList(type))
         /\ excluded # {} <=> (~inFinal /\ inOriginal)
         /\ ~(included # {} /\ excluded # {})
         /\ (~inFinal /\ ~inOriginal) => (included = {} /\ excluded = {})

\* a command for a final list that keeps the video track and drops the only
\* audio track: an inclusion flag and the audio-exclusion flag
C4_Witness ==
  /\ pc = "synthesized"
  /\ OfType(kept, "audio") = <<>>
  /\ ArgPositions("--no-audio") # {}
  /\ ArgPositions("--video-tracks") # {}

----------------------------------------------------------------------------
(* C5 *)

\* the values a --track-name flag for an id can carry
NameValues(id) == { str(id) \o ":" \o n : n \in {"", "a", "b"} }

\* C5: for every track of the final list the command has exactly one
\* --track-name flag for the track's id: id:name when the properties have a
\* track_name, id: when the key is absent.
C5_OneNameFlagPerTrack ==
  cmd # <<>> =>
    \A k \in 1..Len(kept) :
      LET track == tracks[kept[k]]
          flags == { i \in ArgPositions("--track-name") : cmd[i + 1] \in NameValues(track.id) }
      IN /\ Cardinality(flags) = 1
         /\ \A i \in flags :
              cmd[i + 1] = str(track.id) \o ":"
                 \o (IF "track_name" \in DOMAIN track.properties
                     THEN track.properties.track_name ELSE "")

\* what holds of the code: the command has one --track-name flag per entry of
\* the final list, so one per track when no track is listed twice
C5_OneNameFlagPerEntry ==
  cmd # <<>> =>
    \A k \in 1..Len(kept) :
      LET track == tracks[kept[k]]
      IN Cardinality({ i \in ArgPositions("--track-name") : cmd[i + 1] \in NameValues(track.id) })
           = Cardinality({ j \in 1..Len(kept) : kept[j] = kept[k] })

----------------------------------------------------------------------------
(* C6 *)

\* C6: for every track of the final list a --default-track flag for its id
\* is in the command exactly when the default_track key is present, with
\* id:1 for true and id:0 for false.
C6_DefaultFlags ==
  pc = "synthesized" =>
    \A k \in 1..Len(kept) :
      LET track == tracks[kept[k]]
          flags == { i \in ArgPositions("--default-track") :
                       cmd[i + 1] \in { str(track.id) \o ":1", str(track.id) \o ":0" } }
      IN /\ flags # {} <=> "default_track" \in DOMAIN track.properties
         /\ \A i \in flags :
              cmd[i + 1] = str(track.id) \o (IF track.properties.default_track
                                             THEN ":1" ELSE ":0")

\* a command for a final list of a track without the key and a default track
C6_Witness ==
  /\ pc = "synthesized"
  /\ Len(kept) = 2
  /\ "default_track" \notin DOMAIN tracks[kept[1]].properties
  /\ "default_track" \in DOMAIN tracks[kept[2]].properties
  /\ tracks[kept[2]].properties.default_track
  /\ ArgPositions("--default-track") # {}

----------------------------------------------------------------------------
(* C7 *)

\* a line that is a comma-separated list with a token that is no integer or
\* an integer outside start_num .. end_num - 1
BadList(l, start_num, end_num) ==
  LET raw == strip(l)
      tokens == split(raw)
  IN /\ raw # <<>>
     /\ lower(raw) \notin { <<"a", "l", "l">>, <<"n", "o", "n", "e">> }
     /\ \E i \in 1..Len(tokens) :
          \/ ~int(strip(tokens[i])).ok
          \/ int(strip(tokens[i])).val \notin start_num..(end_num - 1)

\* C7: a list typed at the audio (subtitle) prompt with a number outside the
\* group's display numbers, or with a token that is no integer, adds no
\* track, leaves the tracks kept so far as they were, and the same prompt is
\* shown again.
C7_RejectedAsAWhole ==
  [][ /\ (pc = "audio_prompt"
           /\ BadList(line', audio_selection_start_num(tracks), audio_selection_end_num(tracks)))
          => (pc' = "audio_prompt" /\ kept' = kept)
      /\ (pc = "subs_prompt"
           /\ BadList(line', subtitle_selection_start_num(tracks),
                      subtitle_selection_end_num(tracks)))
          => (pc' = "subs_prompt" /\ kept' = kept) ]_vars

\* the subtitle prompt is shown again after the line "2,x", with audio tracks
\* already kept and a first number that names a subtitle track
C7_Witness ==
  /\ pc = "subs_prompt"
  /\ line = <<"2", ",", "x">>
  /\ subtitle_selection_start_num(tracks) = 2
  /\ OfType(kept, "audio") # <<>>

----------------------------------------------------------------------------
(* C8 *)

IsAll(l) == lower(strip(l)) = <<"a", "l", "l">>

IsNone(l) == lower(strip(l)) = <<"n", "o", "n", "e">> \/ strip(l) = <<>>

\* the number of entries of a list that are r
CountOf(refs, r) == Cardinality({ i \in 1..Len(refs) : refs[i] = r })

PromptOf == [audio |-> "audio_prompt", subtitles |-> "subs_prompt"]

\* C8: 'all' (in any letter case) at a group's prompt puts every track of the
\* group, once and in id order, into the kept list, 'none' or an empty line
\* puts none of them there; the answer is accepted, and no answer at a
\* group's prompt adds or removes a track of another group.
C8_AllAndNone ==
  [][ \A g \in {"audio", "subtitles"} :
        LET group == RefsOfType(tracks, g)
            got == SelectSeq(kept', LAMBDA r : tracks[r].type = g)
        IN pc = PromptOf[g] =>
             /\ IsAll(line') =>
                  /\ got = group
                  /\ \A i, j \in 1..Len(got) : i < j => tracks[got[i]].id < tracks[got[j]].id
                  /\ pc' # PromptOf[g]
             /\ IsNone(line') => (got = <<>> /\ pc' # PromptOf[g])
             /\ \A r \in 1..Len(tracks) :
                  tracks[r].type # g => CountOf(kept', r) = CountOf(kept, r) ]_vars

\* selection returned after 'all' at the subtitle prompt of a file with
\* two subtitle tracks and an audio track that was dropped
C8_Witness ==
  /\ pc = "edit_ask"
  /\ IsAll(line)
  /\ Len(subtitle_tracks(tracks)) = 2
  /\ OfType(kept, "subtitles") = subtitle_tracks(tracks)
  /\ audio_tracks(tracks) # <<>>
  /\ OfType(kept, "audio") = <<>>

----------------------------------------------------------------------------
(* C9 *)

\* C9: once the probe succeeded, the kept list holds every video track of
\* the original list (once), whatever was answered; and a prompt is only
\* shown for a group of audio or subtitle tracks, its range of display
\* numbers naming no video track.
C9_VideoKept ==
  tracks # <<>> =>
    /\ \A v \in 1..Len(tracks) : tracks[v].type = "video" => CountOf(kept, v) = 1
    /\ pc = "audio_prompt" =>
         \A d \in audio_selection_start_num(tracks)..(audio_selection_end_num(tracks) - 1) :
           tracks[track_map_to_original_data(tracks)[d]].type = "audio"
    /\ pc = "subs_prompt" =>
         \A d \in subtitle_selection_start_num(tracks)..(subtitle_selection_end_num(tracks) - 1) :
           tracks[track_map_to_original_data(tracks)[d]].type = "subtitles"

\* selection returned the video track alone: the audio and the subtitle
\* prompt were both answered with no track
C9_Witness ==
  /\ pc = "edit_ask"
  /\ Len(tracks) = 3
  /\ audio_tracks(tracks) # <<>>
  /\ subtitle_tracks(tracks) # <<>>
  /\ kept = video_tracks(tracks)
  /\ Len(kept) = 1

----------------------------------------------------------------------------
(* C10 *)

\* the fatal conditions: the probe failed, it reported no tracks, or the
\* Selection Engine returned an empty list
Fatal ==
  \/ status = "probe_failed"
  \/ probeCalls > 0 /\ file = <<>>
  \/ tracks # <<>> /\ kept = <<>> /\ pc \notin {"audio_prompt", "subs_prompt"}

\* C10: in a session with a fatal condition the probe ran once, the session
\* is over, and the editor was not entered, no output path was computed, no
\* command was synthesized and no remux was invoked; no step follows.
C10_FatalEndsSession ==
  /\ [](Fatal => /\ pc = "exit"
                 /\ probeCalls = 1
                 /\ editor = "idle"
                 /\ output_filepath = ""
                 /\ cmd = <<>>
                 /\ remuxCalls = 0)
  /\ [][~Fatal]_vars

\* the session ended because no track was selected
C10_Witness ==
  /\ status = "none_selected"
  /\ pc = "exit"
  /\ tracks # <<>>
  /\ IsNone(line)

----------------------------------------------------------------------------
(* C11 *)

SelectionPcs == {"audio_prompt", "subs_prompt"}

EditorPcs == {"edit_ask", "edit_cmd", "edit_name", "edit_default"}

OutputPcs == {"collision", "confirm_run"}

\* C11: the remux is invoked at most once, by the step that answers 'y' at
\* the final confirmation, and any other answer there ends the session
\* without it; the stages come in order: the probe only runs on an existing
\* file (confirmed with 'y' when its suffix is not .mkv), the selection
\* prompts only after the probe reported tracks, the editor only on a
\* non-empty selection, the output path only after the editor was finished
\* or skipped, the final confirmation only with the command built for the
\* resolved output path.
C11_SessionOrdering ==
  /\ [](/\ remuxCalls <= 1
        /\ (pc \notin {"input_path", "confirm_nonmkv"}) => isfile(mkv_filepath)
        /\ (pc \in SelectionPcs \cup EditorPcs \cup OutputPcs \/ remuxCalls > 0)
             => (probeCalls = 1 /\ tracks # <<>>)
        /\ (pc \in EditorPcs \cup OutputPcs \/ remuxCalls > 0) => kept # <<>>
        /\ (pc \in EditorPcs) => (editor \in {"idle", "open"} /\ output_filepath = "")
        /\ (pc \in OutputPcs \/ remuxCalls > 0)
             => (editor \in {"finished", "skipped"} /\ output_filepath # "")
        /\ (pc = "confirm_run" \/ remuxCalls > 0) => HasArg("-o", output_filepath)
        /\ remuxCalls > 0 => (pc = "exit" /\ lower(strip(line)) = <<"y">>))
  /\ [][ /\ (pc # "probe" /\ pc' = "probe")
            => \/ pc = "input_path" /\ EndsWithMkv(mkv_filepath')
               \/ pc = "confirm_nonmkv" /\ lower(line') = <<"y">>
         /\ remuxCalls' # remuxCalls
            => (pc = "confirm_run" /\ lower(strip(line')) = <<"y">> /\ remuxCalls' = 1)
         /\ (pc = "confirm_run" /\ lower(strip(line')) # <<"y">>)
            => (pc' = "exit" /\ remuxCalls' = 0) ]_vars

\* a session on b.mp4 that went through every stage: the suffix confirmed,
\* tracks edited, the output renamed, the remux run
C11_Witness ==
  /\ remuxCalls = 1
  /\ mkv_filepath = <<"b", ".", "m", "p", "4">>
  /\ editor = "finished"
  /\ edits > 0
  /\ count > 1

----------------------------------------------------------------------------
(* C12 *)

\* the n-th numbered output name of the two input files
NumberedName(n) ==
  IF mkv_filepath = <<"a", ".", "m", "k", "v">>
  THEN "a_modified_" \o str(n) \o ".mkv"
  ELSE "b_modified_" \o str(n) \o ".mp4"

UnnumberedName ==
  IF mkv_filepath = <<"a", ".", "m", "k", "v">> THEN "a_modified.mkv" ELSE "b_modified.mp4"

\* C12: the path in the command at the final confirmation did not exist when
\* the collision loop tested it last, or the user answered 'o' at the prompt
\* for exactly that path; the collision prompt is only shown for a path that
\* exists; the candidates are the unnumbered name, then the names numbered
\* 1, 2, 3, ... one per 'r', until one does not exist; 'c' ends the session
\* with no command and no remux.
C12_CollisionResolution ==
  /\ [](/\ pc = "collision" => output_exists
        /\ pc = "confirm_run"
             => /\ HasArg("-o", output_filepath)
                /\ output_exists => lower(line) = <<"o">>
        /\ (pc \in OutputPcs \/ remuxCalls > 0)
             => output_filepath = (IF count = 1 THEN UnnumberedName
                                   ELSE NumberedName(count - 1))
        /\ status = "cancelled" => (pc = "exit" /\ remuxCalls = 0 /\ cmd = <<>>))
  /\ [][ /\ pc = "collision" =>
              /\ lower(line') = <<"o">>
                   => (pc' = "confirm_run" /\ output_filepath' = output_filepath)
              /\ lower(line') = <<"r">>
                   => /\ output_filepath' = NumberedName(count)
                      /\ count' = count + 1
                      /\ pc' = (IF output_exists' THEN "collision" ELSE "confirm_run")
              /\ lower(line') = <<"c">>
                   => (pc' = "exit" /\ status' = "cancelled" /\ remuxCalls' = 0)
         /\ pc = "confirm_run" => (output_filepath' = output_filepath /\ cmd' = cmd) ]_vars

\* the final confirmation is reached with the second numbered name, after
\* the unnumbered and the first numbered name were found to exist
C12_Witness ==
  /\ pc = "confirm_run"
  /\ count = 3
  /\ output_filepath = "a_modified_2.mkv"
  /\ ~output_exists

----------------------------------------------------------------------------
(* C13 *)

\* a line at the row prompt that is neither the finish token nor a row of
\* the working set
InvalidCommand(l) ==
  /\ lower(strip(l)) # <<"f">>
  /\ \/ ~int(strip(l)).ok
     \/ int(strip(l)).val \notin 1..Len(kept)

HasPrinted(tag) == \E i \in 1..Len(printed) : printed[i] = tag

\* C13: on an out-of-range row number or a line that is no number, the
\* editor prints an error, leaves the working set as it was, asks for a row
\* again, and does not display the track table again.
C13_NoRelisting ==
  [][ (pc = "edit_cmd" /\ InvalidCommand(line'))
        => /\ pc' = "edit_cmd"
           /\ kept' = kept
           /\ tracks' = tracks
           /\ (HasPrinted("invalid_row") \/ HasPrinted("invalid_input"))'
           /\ ~HasPrinted("edit_listing")' ]_vars

\* what holds of the code: the error is printed, the working set is as it
\* was, and the row prompt is shown again after the track table
C13_RelistsAfterError ==
  [][ (pc = "edit_cmd" /\ InvalidCommand(line'))
        => /\ pc' = "edit_cmd"
           /\ kept' = kept
           /\ tracks' = tracks
           /\ (HasPrinted("invalid_row") \/ HasPrinted("invalid_input"))'
           /\ printed'[Len(printed')] = "edit_listing" ]_vars

----------------------------------------------------------------------------
(* C14 *)

\* C14: in the name step of an edit, an empty line (after stripping) leaves
\* the track's properties as they were, '-' leaves the track without a
\* track_name key whether or not it had one, any other text becomes the
\* track_name (the lines typed are "b" and " b", both the name b); no other
\* key of the track and no other track is changed.
C14_NameEdit ==
  [][ pc = "edit_name" =>
        LET ref == kept[track_idx]
            text == strip(line')
            new == tracks'[ref].properties
        IN /\ text = <<>> => new = tracks[ref].properties
           /\ text = <<"-">> => "track_name" \notin DOMAIN new
           /\ text \notin { <<>>, <<"-">> }
                => ("track_name" \in DOMAIN new /\ new.track_name = "b")
           /\ DOMAIN new \ {"track_name"} = DOMAIN tracks[ref].properties \ {"track_name"}
           /\ \A r \in 1..Len(tracks) : r # ref => tracks'[r] = tracks[r] ]_vars

\* the second edit of a session deleted the name of a track with '-' while
\* the other track keeps the name the first edit gave it
C14_Witness ==
  /\ pc \in {"edit_default", "edit_cmd"}
  /\ edits = 2
  /\ strip(line) = <<"-">>
  /\ HasPrinted("name_deleted")
  /\ "track_name" \notin DOMAIN tracks[kept[track_idx]].properties
  /\ \E k \in 1..Len(kept) :
       /\ kept[k] # kept[track_idx]
       /\ "track_name" \in DOMAIN tracks[kept[k]].properties

----------------------------------------------------------------------------
(* C15 *)

TypeRank == [video |-> 1, audio |-> 2, subtitles |-> 3]

\* the display number of a track: one more than the number of tracks of an
\* earlier group, or of its group and a smaller id
DisplayNumber(r) ==
  1 + Cardinality({ q \in 1..Len(tracks) :
        \/ TypeRank[tracks[q].type] < TypeRank[tracks[r].type]
        \/ tracks[q].type = tracks[r].type /\ tracks[q].id < tracks[r].id })

\* the display numbers of the tracks of a type
NumbersOf(type) == { DisplayNumber(r) : r \in { q \in 1..Len(tracks) : tracks[q].type = type } }

\* how often a line names the display number d
TimesNamed(l, d) ==
  LET tokens == split(strip(l))
  IN Cardinality({ i \in 1..Len(tokens) :
       int(strip(tokens[i])).ok /\ int(strip(tokens[i])).val = d })

\* C15: the table of display numbers maps 1..V to the video tracks, the
\* next A numbers to the audio tracks and the next S numbers to the subtitle
\* tracks, each group in id order and no number to two tracks; the audio
\* prompt accepts numbers of audio tracks only and the subtitle prompt
\* numbers of subtitle tracks only, and an accepted list of numbers adds
\* exactly the tracks it names, each as often as it names it.
C15_DisplayNumbers ==
  /\ [](tracks # <<>> =>
          /\ \A r \in 1..Len(tracks) :
               track_map_to_original_data(tracks)[DisplayNumber(r)] = r
          /\ Len(track_map_to_original_data(tracks)) = Len(tracks)
          /\ NumbersOf("video") = 1..Len(video_tracks(tracks))
          /\ NumbersOf("audio")
               = audio_selection_start_num(tracks)..(audio_selection_end_num(tracks) - 1)
          /\ NumbersOf("subtitles")
               = subtitle_selection_start_num(tracks)..(subtitle_selection_end_num(tracks) - 1))
  /\ [][ \A g \in {"audio", "subtitles"} :
           (pc = PromptOf[g] /\ pc' # PromptOf[g] /\ ~IsAll(line') /\ ~IsNone(line'))
             => \A r \in 1..Len(tracks) :
                  CountOf(kept', r) - CountOf(kept, r)
                    = (IF tracks[r].type = g THEN TimesNamed(line', DisplayNumber(r)) ELSE 0) ]_vars

\* in a file whose ids alternate between the groups (audio 0, video 1,
\* subtitles 2) the numbers 2 and 3 were accepted at the two prompts
C15_Witness ==
  /\ pc = "edit_ask"
  /\ Len(tracks) = 3
  /\ tracks[1].type = "audio"
  /\ tracks[2].type = "video"
  /\ tracks[3].type = "subtitles"
  /\ strip(line) = <<"3">>
  /\ Len(kept) = 3

----------------------------------------------------------------------------
(* C16 *)

Returned == {"edit_ask", "exit"}

\* C16: a group is prompted only when it has tracks; the first prompt after
\* the probe is the audio prompt when there are audio tracks, else the
\* subtitle prompt when there are subtitle tracks, else the engine returns
\* at once; a prompt is shown again exactly when its line was rejected; an
\* accepted audio line is followed by the subtitle prompt when there are
\* subtitle tracks and by the return otherwise, an accepted subtitle line by
\* the return; no prompt follows the return, and the audio prompt never
\* follows the subtitle prompt.
C16_PromptProtocol ==
  /\ [](/\ pc = "audio_prompt" => audio_tracks(tracks) # <<>>
        /\ pc = "subs_prompt" => subtitle_tracks(tracks) # <<>>
        /\ pc = "audio_prompt" => OfType(kept, "subtitles") = <<>>)
  /\ [][ /\ (pc = "probe" /\ tracks' # <<>>)
              => pc' = (IF audio_tracks(tracks') # <<>> THEN "audio_prompt"
                        ELSE IF subtitle_tracks(tracks') # <<>> THEN "subs_prompt"
                        ELSE "edit_ask")
         /\ pc = "audio_prompt"
              => IF BadList(line', audio_selection_start_num(tracks),
                            audio_selection_end_num(tracks))
                 THEN pc' = "audio_prompt"
                 ELSE IF subtitle_tracks(tracks) # <<>> THEN pc' = "subs_prompt"
                 ELSE pc' \in Returned
         /\ pc = "subs_prompt"
              => IF BadList(line', subtitle_selection_start_num(tracks),
                            subtitle_selection_end_num(tracks))
                 THEN pc' = "subs_prompt"
                 ELSE pc' \in Returned
         /\ pc' = "audio_prompt" => pc \in {"probe", "audio_prompt"}
         /\ pc' = "subs_prompt" => pc \in {"probe", "audio_prompt", "subs_prompt"}
         /\ pc \in Returned => pc' \in Returned ]_vars

\* the engine returned from a file without audio tracks: the subtitle
\* prompt was the only one, and its line was accepted
C16_Witness ==
  /\ pc = "edit_ask"
  /\ audio_tracks(tracks) = <<>>
  /\ video_tracks(tracks) # <<>>
  /\ OfType(kept, "subtitles") # <<>>

----------------------------------------------------------------------------
(* C17 *)

\* the original list right after the probe
Probed == SortTracks(file)

\* the working set as a set of records of the original list
InWorkingSet == { kept[k] : k \in 1..Len(kept) }

\* C17 as stated: every record of the original list has the track_name and
\* the default_track it had right after the probe.
C17_OriginalReadOnly ==
  tracks # <<>> =>
    \A r \in 1..Len(tracks) :
      \A key \in {"track_name", "default_track"} :
        /\ key \in DOMAIN tracks[r].properties <=> key \in DOMAIN Probed[r].properties
        /\ key \in DOMAIN tracks[r].properties
             => tracks[r].properties[key] = Probed[r].properties[key]

\* C17 as amended: the original list keeps its length and order and every
\* record its id, type, codec and language; a record that is not in the
\* working set is as it was right after the probe (the records of the
\* working set are the records of the original list, so an edit shows in
\* both).
C17_OriginalFrame ==
  tracks # <<>> =>
    /\ Len(tracks) = Len(Probed)
    /\ \A r \in 1..Len(tracks) :
         /\ tracks[r].id = Probed[r].id
         /\ tracks[r].type = Probed[r].type
         /\ tracks[r].codec = Probed[r].codec
         /\ tracks[r].properties.language = Probed[r].properties.language
         /\ r \notin InWorkingSet => tracks[r] = Probed[r]

\* the editor was left after an edit changed a record of the working set,
\* with a record of the same type that was not selected and still carries
\* its default flag
C17_Witness ==
  /\ editor = "finished"
  /\ tracks # Probed
  /\ \E r \in 1..Len(tracks) :
       /\ r \notin InWorkingSet
       /\ "default_track" \in DOMAIN tracks[r].properties
       /\ tracks[r].properties.default_track
       /\ \E k \in InWorkingSet :
            /\ tracks[k].type = tracks[r].type
            /\ "default_track" \in DOMAIN tracks[k].properties
            /\ tracks[k].properties.default_track

----------------------------------------------------------------------------
(* C18 *)

\* C18: the editor's loop is entered only by the answer 'y' to the opening
\* question on a non-empty working set; on any other answer, and on an empty
\* working set (then without a question), the editor returns at once: no
\* record is changed, the working set holds the same records, and the edit
\* listing is not displayed.
C18_OptIn ==
  /\ [](pc \in {"edit_cmd", "edit_name", "edit_default"} => editor = "open")
  /\ [][ /\ pc = "edit_ask" =>
              IF kept # <<>> /\ lower(strip(line')) = <<"y">>
              THEN /\ editor' = "open"
                   /\ pc' = "edit_cmd"
                   /\ HasPrinted("edit_listing")'
                   /\ tracks' = tracks /\ kept' = kept
              ELSE /\ editor' = "skipped"
                   /\ pc' \notin EditorPcs
                   /\ ~HasPrinted("edit_listing")'
                   /\ tracks' = tracks
                   /\ \A r \in 1..Len(tracks) : CountOf(kept', r) = CountOf(kept, r)
                   /\ kept = <<>> => line' = line
         /\ (editor # "open" /\ editor' = "open") => pc = "edit_ask"
         /\ editor = "skipped" => (editor' = "skipped" /\ tracks' = tracks) ]_vars

\* the editor returned on an empty line from a working set of two tracks
\* that carry default flags
C18_Witness ==
  /\ editor = "skipped"
  /\ line = <<>>
  /\ Len(kept) = 2
  /\ \A k \in 1..2 : "default_track" \in DOMAIN tracks[kept[k]].properties
  /\ pc \notin EditorPcs

----------------------------------------------------------------------------
(* C19 *)

\* C19: the list the Selection Engine returned is strictly increasing by
\* id, so it holds no track twice, whatever lines were accepted; and no
\* inclusion flag of the command names an id twice.
C19_StrictlyIncreasing ==
  /\ (tracks # <<>> /\ pc \notin SelectionPcs)
       => \A i, j \in 1..Len(kept) : i < j => Ids(kept)[i] < Ids(kept)[j]
  /\ cmd # <<>>
       => \A type \in TrackTypes, d \in 0..MaxTracks :
            /\ ~HasArg(InclusionFlag[type], str(d) \o "," \o str(d))
            /\ ~HasArg(InclusionFlag[type], str(d) \o "," \o str(d) \o "," \o str(d))

\* what holds of the code: the returned list is sorted by id, a track being
\* in it once per time its display number was typed
C19_SortedById ==
  (tracks # <<>> /\ pc \notin SelectionPcs)
    => \A i, j \in 1..Len(kept) : i < j => Ids(kept)[i] <= Ids(kept)[j]

----------------------------------------------------------------------------
(* C20 *)

\* a properties mapping without some keys
Hide(props, keys) == [k \in DOMAIN props \ keys |-> props[k]]

\* C20: a step of an edit on row k leaves the working set (length and
\* order) and every record's id, type, codec and language as they were; it
\* changes at most track_name and default_track of the track at row k, and
\* default_track of other tracks of the same type, there only to false and
\* only where the key was present; a track of another type is left as it
\* was, and so is the default_track of every video track.  Choosing the row
\* changes nothing.
C20_EditFrame ==
  [][ /\ pc \in {"edit_name", "edit_default"} =>
           LET ref == kept[track_idx]
           IN /\ kept' = kept
              /\ Len(tracks') = Len(tracks)
              /\ \A r \in 1..Len(tracks) :
                   LET old == tracks[r]
                       new == tracks'[r]
                   IN /\ new.id = old.id /\ new.type = old.type /\ new.codec = old.codec
                      /\ Hide(new.properties, {"track_name", "default_track"})
                           = Hide(old.properties, {"track_name", "default_track"})
                      /\ r # ref =>
                           /\ Hide(new.properties, {"default_track"})
                                = Hide(old.properties, {"default_track"})
                           /\ DOMAIN new.properties = DOMAIN old.properties
                           /\ new # old => (old.type = tracks[ref].type
                                            /\ new.properties.default_track = FALSE)
                      /\ old.type = "video" =>
                           /\ "default_track" \in DOMAIN new.properties
                                <=> "default_track" \in DOMAIN old.properties
                           /\ "default_track" \in DOMAIN old.properties
                                => new.properties.default_track = old.properties.default_track
      /\ (pc = "edit_cmd" /\ pc' \in {"edit_cmd", "edit_name"})
           => (tracks' = tracks /\ kept' = kept) ]_vars

\* an edit answered 'y' on a track and cleared the default flag the source
\* had set on another track of the type
C20_Witness ==
  /\ AnsweredDefaultYes
  /\ \E k \in 1..Len(kept) :
       /\ kept[k] # kept[track_idx]
       /\ tracks[kept[k]].type = tracks[kept[track_idx]].type
       /\ "default_track" \in DOMAIN tracks[kept[k]].properties
       /\ ~tracks[kept[k]].properties.default_track
       /\ Probed[kept[k]].properties.default_track
  /\ tracks[kept[track_idx]].properties.default_track

====
